---- MODULE Spec2Model ----
(***************************************************************************)
(* pipr: requirement reconciliation and install dispatch.                  *)
(* A model of main(), check_packages(), run_pip_install(),                 *)
(* run_pip_install_from_file() and create_virtualenv() of pipr/pipr.py.    *)
(* External collaborators (the installer, the venv tool, the remote index, *)
(* the interactive prompt, the files of the working directory) answer      *)
(* nondeterministically.                                                   *)
(***************************************************************************)
EXTENDS Integers, Sequences, FiniteSets, TLC

\* ------------------------------------------------------------------ bounds
\* longest requirement list handed to check_packages
MaxReqs == 2
\* how many times the external installer may fail in one run
MaxFail == 2
\* how many consecutive runs of the program in one working directory
MaxRuns == 2
\* the largest component of the versions convert_spec is run on
MaxComponent == 10
\* how many entries a dependency table of pyproject.toml has at most
MaxEntries == 3
\* how many lines a requirements file or an install_requires list has at most
MaxLines == 2

\* ------------------------------------------------------------------ values
\* Python's None, for a requirement without a constraint
None == "None"
\* metadata.version raised PackageNotFoundError
NoVer == 0
\* the versions a package can be installed in
Versions == {1}

REQ_FILE == "requirements.txt"
REQ_INSTALL_FILE == "requirements-install.txt"

\* names of the packages a project declares, in sorted order
PkgNames == <<"attrs", "flask", "numpy", "requests">>

\* the constraint texts of the model and what SpecifierSet reads in them
SpecTexts == {"==1", ">=2"}
SpecOp(spec) == IF spec = "==1" THEN "==" ELSE ">="
SpecVer(spec) == IF spec = "==1" THEN 1 ELSE 2

\* Python truthiness of a spec: None and '' are falsy
Truthy(spec) == spec # None /\ spec # ""

\* `spec or ''`
OrEmpty(spec) == IF Truthy(spec) THEN spec ELSE ""

\* f"{pkg}{spec or ''}"
PkgSpec(pkg, spec) == pkg \o OrEmpty(spec)

\* `iv in SpecifierSet(spec)`
InSpecifierSet(iv, spec) ==
    IF SpecOp(spec) = "==" THEN iv = SpecVer(spec) ELSE iv >= SpecVer(spec)

\* ------------------------------------------------------------------ paths
\* pathlib: Path.cwd() / name is absolute, Path(name) is relative; two paths
\* are equal when their parts are equal
CwdPath(name) == [abs |-> TRUE, name |-> name]
RelPath(name) == [abs |-> FALSE, name |-> name]

\* ------------------------------------------------------------------ state
VARIABLES
    args,          \* the parsed command line
    module_name,   \* __name__ of pipr.py, once the run has depended on it
    installed,     \* the installed version of each package, NoVer if none
    manifest,      \* the transient install manifest requirements-install.txt
    run,           \* number of the current run in this working directory
    pc,            \* position of the run
    requirements,  \* main: the list handed to check_packages
    idx,           \* loop index of the requirement loops
    python_conflicts, version_conflicts, missing_packages, to_install,
    fr,            \* run_pip_install_from_file: its force_retry parameter
    fails,         \* failures of the installer in this run
    prompts,       \* answers given to "Retry installation?" in this run
    calls,         \* external processes started in this run, in order
    wrote,         \* position in calls at which the manifest was written
    caller,        \* who called run_pip_install_from_file
    venv,          \* result of create_virtualenv
    success,       \* result of run_pip_install: "True", "False", "unset"
    ret,           \* what check_packages returned
    exitCode,      \* exit status of the process
    input,         \* a function of pipr.py called on its own: name and argument
    output         \* what that call produced, none before it

progVars == <<args, module_name, installed, manifest, run, pc, requirements,
              idx, python_conflicts, version_conflicts, missing_packages,
              to_install, fr, fails, prompts, calls, wrote, caller, venv, success, ret,
              exitCode>>

vars == <<progVars, input, output>>

\* the exit status: none while the process runs
Running == <<>>

\* __name__ of pipr.py: '__main__' when the file is run as a script, the
\* module's name when it is imported (the console entry point of setup.py
\* imports the package); Unread until the run takes a branch on it
Unread == ""
ModuleNames == {"__main__", "pipr.pipr"}
Reads(needed) == IF needed /\ module_name = Unread THEN ModuleNames ELSE {module_name}
NoManifest == [exists |-> FALSE, lines |-> <<>>]

\* metadata.version(pkg)
MetadataVersion(pkg) == IF pkg \in DOMAIN installed THEN installed[pkg] ELSE NoVer

\* the FILE argument: absent, a directory, a name that is no path, or a file
Targets ==
    {[kind |-> "none", name |-> ""], [kind |-> "dir", name |-> "."],
     [kind |-> "missing", name |-> "somepkg"]}
    \cup {[kind |-> "file", name |-> n] :
            n \in {"app.py", "setup.py", "requirements.txt", "pyproject.toml", "deps.cfg"}}

\* the options main reads after it has found the requirements: whether
\* --pypi names a package, and the four mode flags, summary standing for
\* `args.summary or args.check` (FILE is read by MainResolve alone and is
\* drawn there)
ArgSets ==
    [pypi : BOOLEAN, force_retry : BOOLEAN, force_install : BOOLEAN,
     summary : BOOLEAN, no_install : BOOLEAN]

\* the packages of the model
Pkgs == {PkgNames[i] : i \in 1..MaxReqs}

\* requirement lists with constraints from S: the i-th requirement names the
\* i-th package
ReqsOf(specs) == [i \in DOMAIN specs |-> [name |-> PkgNames[i], spec |-> specs[i]]]
ReqLists(S) == {ReqsOf(specs) : specs \in UNION {[1..n -> S] : n \in 1..MaxReqs}}

Init ==
    /\ args \in ArgSets
    /\ module_name = Unread
    /\ installed \in [Pkgs -> Versions \cup {NoVer}]
    /\ manifest = NoManifest
    /\ run = 1
    /\ pc = "main"
    /\ requirements = <<>>
    /\ idx = 1
    /\ python_conflicts = <<>>
    /\ version_conflicts = <<>>
    /\ missing_packages = <<>>
    /\ to_install = <<>>
    /\ fr = FALSE
    /\ fails = 0
    /\ prompts = <<>>
    /\ calls = <<>>
    /\ wrote = -1
    /\ caller = "check_packages"
    /\ venv = "none"
    /\ success = "unset"
    /\ ret = <<>>
    /\ exitCode = Running
    /\ input = <<>>
    /\ output = <<>>

\* ------------------------------------------------------------------ main
\* the files of the working directory main looks for
CwdFiles == {"setup.py", "pyproject.toml", REQ_FILE, REQ_INSTALL_FILE}

\* Path.suffix and the name tests of the FILE dispatch
Suffix(name) ==
    CASE name \in {"app.py", "setup.py"} -> ".py"
      [] name = "requirements.txt" -> ".txt"
      [] name = "pyproject.toml" -> ".toml"
      [] OTHER -> ".cfg"
StartsWithRequire(name) == name = "requirements.txt"

\* what a file holds: no file, a file of size 0, text without a requirement,
\* text with the requirements of the project
Contents == {"absent", "empty", "noreqs", "reqs"}
CwdStates ==
    {cwd \in [CwdFiles -> Contents] :
        /\ cwd["setup.py"] # "empty" /\ cwd["pyproject.toml"] # "empty"
        /\ cwd[REQ_INSTALL_FILE] # "noreqs"}

\* what the manifest of the state is as a file of the working directory
ManifestContent ==
    IF ~manifest.exists THEN "absent"
    ELSE IF manifest.lines = <<>> THEN "empty" ELSE "reqs"

\* Path(f).exists() and Path(f).stat().st_size > 0
Exists(c) == c # "absent"
SizePositive(c) == c \in {"noreqs", "reqs"}

\* parse_requirements, parse_setup_py, parse_pyproject_toml: name and
\* constraint text, None without a constraint
ParseDeclared(c, decl) == IF c = "reqs" THEN decl ELSE <<>>
\* parse_python_file, parse_python_directory: names only, no constraint
ParseImports(c, decl) ==
    IF c = "reqs"
    THEN [i \in DOMAIN decl |-> [name |-> decl[i].name, spec |-> None]]
    ELSE <<>>
\* get_requirements_from_pypi: the core dependencies, 'any' read as ''
FromPypi(c, decl) ==
    IF c = "reqs"
    THEN [i \in DOMAIN decl |->
            [name |-> decl[i].name,
             spec |-> IF decl[i].spec = None THEN "" ELSE decl[i].spec]]
    ELSE <<>>

\* REQ_FOUND: the files of the working directory that exist and are not
\* empty, as absolute paths
ReqFound(cwd) == {CwdPath(f) : f \in {g \in CwdFiles : SizePositive(cwd[g])}}

\* `if Path(REQ_INSTALL_FILE) in REQ_FOUND`
ManifestFound(cwd) == RelPath(REQ_INSTALL_FILE) \in ReqFound(cwd)

\* parser is the function the requirements come from
Go(reqs, parser) ==
    [exit |-> Running, reqs |-> reqs, startup |-> FALSE, parser |-> parser]
Exit(code) == [exit |-> <<code>>, reqs |-> <<>>, startup |-> FALSE, parser |-> "none"]

\* "If still no requirements found, try requirements.txt"; pypi is
\* args.pypi, reqFile the content of the file the global REQ_FILE names by now
TryReqFile(pypi, reqs, parser, isPy, isDir, reqFile, decl) ==
    IF Len(reqs) < 1 /\ ~isPy /\ ~isDir
    THEN IF ~pypi /\ ~Exists(reqFile) THEN Exit(1)
         ELSE IF ~pypi
              THEN IF Len(ParseDeclared(reqFile, decl)) < 1 THEN Exit(1)
                   ELSE Go(ParseDeclared(reqFile, decl), "parse_requirements")
              ELSE Go(reqs, parser)
    ELSE Go(reqs, parser)

\* main up to the call of check_packages. pypi is args.pypi, t is FILE, tc
\* the content of the file, directory or remote package it names, cwd the
\* files of the working directory, decl the requirements a source with
\* requirements declares
Resolve(pypi, t, tc, cwd, decl) ==
    IF t.kind = "file"
    THEN IF Suffix(t.name) = ".py"
         THEN TryReqFile(pypi, ParseImports(tc, decl), "parse_python_file", TRUE, FALSE,
                         cwd[REQ_FILE], decl)
         ELSE IF StartsWithRequire(t.name) /\ Suffix(t.name) = ".txt"
         THEN TryReqFile(pypi, ParseDeclared(tc, decl), "parse_requirements", FALSE, FALSE,
                         tc, decl)
         ELSE IF t.name = "setup.py"
         THEN TryReqFile(pypi, ParseDeclared(tc, decl), "parse_setup_py", FALSE, FALSE,
                         cwd[REQ_FILE], decl)
         ELSE IF t.name = "pyproject.toml"
         THEN TryReqFile(pypi, ParseDeclared(tc, decl), "parse_pyproject_toml", FALSE, FALSE,
                         cwd[REQ_FILE], decl)
         ELSE TryReqFile(pypi, ParseDeclared(tc, decl), "parse_requirements", FALSE, FALSE,
                         tc, decl)
    ELSE IF t.kind = "dir"
    THEN TryReqFile(pypi, ParseImports(tc, decl), "parse_python_directory", FALSE, TRUE,
                    cwd[REQ_FILE], decl)
    ELSE IF t.kind = "missing"
    THEN IF FromPypi(tc, decl) = <<>> THEN Exit(1)
         ELSE TryReqFile(pypi, FromPypi(tc, decl), "get_requirements_from_pypi", FALSE, FALSE,
                         cwd[REQ_FILE], decl)
    ELSE IF pypi
    THEN TryReqFile(pypi, FromPypi(tc, decl), "get_requirements_from_pypi", FALSE, FALSE,
                    cwd[REQ_FILE], decl)
    ELSE IF ManifestFound(cwd)
    THEN [exit |-> Running, reqs |-> <<>>, startup |-> TRUE, parser |-> "none"]
    ELSE IF ReqFound(cwd) = {}
    THEN IF Len(ParseImports(tc, decl)) < 1 THEN Exit(1)
         ELSE TryReqFile(pypi, ParseImports(tc, decl), "parse_python_directory", FALSE, TRUE,
                         cwd[REQ_FILE], decl)
    ELSE LET fromSetup == ParseDeclared(cwd["setup.py"], decl)
             reqs == IF Len(fromSetup) < 1
                     THEN ParseDeclared(cwd["pyproject.toml"], decl) ELSE fromSetup
             parser == IF Len(fromSetup) < 1 THEN "parse_pyproject_toml"
                       ELSE "parse_setup_py"
         IN  TryReqFile(pypi, reqs, parser, FALSE, FALSE, cwd[REQ_FILE], decl)

\* every way main can come out of its search, over all FILE arguments and
\* all contents of the sources, by --pypi and by the state of the manifest
Resolutions ==
    {[pypi |-> pypi, manifest |-> cwd[REQ_INSTALL_FILE],
      r |-> Resolve(pypi, t, tc, cwd, decl)] :
        pypi \in BOOLEAN, t \in Targets, tc \in {"noreqs", "reqs"},
        cwd \in CwdStates, decl \in ReqLists(SpecTexts \cup {None})}

MainResolve ==
    /\ pc = "main"
    /\ \E e \in Resolutions :
         /\ e.pypi = args.pypi
         /\ e.manifest = ManifestContent
         /\ LET r == e.r IN
            IF r.startup
            THEN /\ pc' = "pip_file"
                 /\ fr' = args.force_retry
                 /\ caller' = "main"
                 /\ UNCHANGED <<requirements, exitCode>>
            ELSE IF r.exit # Running
            THEN /\ pc' = "done"
                 /\ exitCode' = r.exit
                 /\ UNCHANGED <<requirements, fr, caller>>
            ELSE /\ pc' = IF r.reqs = <<>> THEN "dispatch" ELSE "scan"
                 /\ requirements' = r.reqs
                 /\ UNCHANGED <<fr, caller, exitCode>>
    /\ idx' = 1
    /\ UNCHANGED <<input, output, args, module_name, installed, manifest, run,
                   python_conflicts, version_conflicts, missing_packages,
                   to_install, fails, prompts, calls, wrote, venv, success, ret>>

\* ------------------------------------------------------------------ check_packages
\* miss_conflict_check without the `and spec` of its test
miss_conflict_check_AnySpec(pkg, spec) ==
    LET inst_ver == MetadataVersion(pkg) IN
    IF inst_ver # NoVer
    THEN [vc |-> IF ~Truthy(spec) \/ ~InSpecifierSet(inst_ver, spec)
                 THEN <<[pkg |-> pkg, installed |-> inst_ver, required |-> spec]>>
                 ELSE <<>>,
          mp |-> <<>>]
    ELSE [vc |-> <<>>, mp |-> <<[pkg |-> pkg, spec |-> spec]>>]

\* miss_conflict_check: the two lists it returns for one requirement
miss_conflict_check(pkg, spec) ==
    LET inst_ver == MetadataVersion(pkg) IN
    IF inst_ver # NoVer /\ Truthy(spec)
    THEN [vc |-> IF ~InSpecifierSet(inst_ver, spec)
                 THEN <<[pkg |-> pkg, installed |-> inst_ver, required |-> spec]>>
                 ELSE <<>>,
          mp |-> <<>>]
    ELSE IF inst_ver = NoVer
    THEN [vc |-> <<>>, mp |-> <<[pkg |-> pkg, spec |-> spec]>>]
    ELSE [vc |-> <<>>, mp |-> <<>>]

\* whether the installer may still fail in this run
MayFail == fails < MaxFail
Outcomes == IF MayFail THEN BOOLEAN ELSE {TRUE}
Call(op, arg, ok) == [op |-> op, arg |-> arg, ok |-> ok]

\* the packages whose remote metadata may require a Python other than the
\* running one; for the others check_python_version_compatibility passes
RequiresOtherPython == {"attrs"}
IsCompatible(pkg) == IF pkg \in RequiresOtherPython THEN BOOLEAN ELSE {TRUE}

\* one turn of the first loop over reqs: remote runtime check, then
\* `version_conflicts, missing_packages = miss_conflict_check(pkg, spec)`
ScanStep ==
    /\ pc = "scan"
    /\ idx <= Len(requirements)
    /\ LET req == requirements[idx]
           mc == miss_conflict_check(req.name, req.spec)
       IN  /\ \E is_compatible \in IsCompatible(req.name) :
                python_conflicts' =
                    IF ~is_compatible THEN Append(python_conflicts, req.name)
                    ELSE python_conflicts
           /\ version_conflicts' = mc.vc
           /\ missing_packages' = mc.mp
    /\ idx' = idx + 1
    /\ pc' = IF idx + 1 > Len(requirements) THEN "dispatch" ELSE "scan"
    /\ UNCHANGED <<input, output, args, module_name, installed, manifest, run, requirements,
                   to_install, fr, fails, prompts, calls, wrote, caller, venv,
                   success, ret, exitCode>>

\* the second loop over reqs: what is collected for installation
RECURSIVE TableLoop(_)
TableLoop(reqs) ==
    IF reqs = <<>> THEN <<>>
    ELSE LET req == Head(reqs) IN
         IF MetadataVersion(req.name) = NoVer
         THEN <<PkgSpec(req.name, req.spec)>> \o TableLoop(Tail(reqs))
         ELSE TableLoop(Tail(reqs))

\* the tuple check_packages returns
Returned(toInstall) ==
    <<[reqs |-> requirements, to_install |-> toInstall,
       python_conflicts |-> python_conflicts,
       version_conflicts |-> version_conflicts,
       missing_packages |-> missing_packages]>>

\* the branch check_packages would take if it did not look at auto_mode
Remedy_AnyMode(name) ==
    IF python_conflicts # <<>> /\ name = "__main__" THEN "abort"
    ELSE IF version_conflicts # <<>> /\ ~args.force_install THEN "isolate"
    ELSE IF args.force_install THEN "force"
    ELSE IF args.summary THEN "summary"
    ELSE IF TableLoop(requirements) # <<>> THEN "batch"
    ELSE "nothing"

\* the branch check_packages takes after the first loop
Remedy(name) ==
    IF python_conflicts # <<>> /\ name = "__main__" THEN "abort"
    ELSE IF version_conflicts # <<>> /\ ~args.force_install /\ ~args.no_install
    THEN "isolate"
    ELSE IF args.force_install THEN "force"
    ELSE IF args.summary THEN "summary"
    ELSE IF TableLoop(requirements) # <<>> /\ ~args.no_install THEN "batch"
    ELSE "nothing"

\* check_packages from the end of the first loop to its first external call
\* or its return; run_pip_install writes the manifest here
Dispatch ==
    /\ pc = "dispatch"
    /\ \E name \in Reads(python_conflicts # <<>>) :
       LET remedy == Remedy(name)
           collected == IF remedy \in {"summary", "batch", "nothing"}
                        THEN TableLoop(requirements) ELSE <<>>
       IN  /\ module_name' = name
           /\ to_install' = collected
           /\ pc' = CASE remedy = "abort" -> "done"
                      [] remedy = "isolate" -> "venv"
                      [] remedy = "force" ->
                            IF requirements = <<>> THEN "after_check" ELSE "force"
                      [] remedy = "batch" -> "pip_file"
                      [] OTHER -> "after_check"
           /\ exitCode' = IF remedy = "abort" THEN <<1>> ELSE exitCode
           /\ ret' = IF remedy \in {"summary", "nothing"} THEN Returned(collected)
                     ELSE IF remedy = "force" /\ requirements = <<>>
                     THEN Returned(<<>>)
                     ELSE ret
           /\ manifest' = IF remedy = "batch"
                          THEN [exists |-> TRUE, lines |-> collected]
                          ELSE manifest
           /\ wrote' = IF remedy = "batch" THEN Len(calls) ELSE wrote
           /\ fr' = IF remedy = "batch" THEN args.force_retry ELSE fr
           /\ venv' = IF remedy = "isolate" THEN "running" ELSE venv
           /\ idx' = IF remedy = "isolate" THEN 0 ELSE 1
    /\ UNCHANGED <<input, output, args, installed, run, requirements,
                   python_conflicts, version_conflicts, missing_packages, fails,
                   prompts, calls, caller, success>>

\* ------------------------------------------------------------------ create_virtualenv
\* the external process of each stage: the venv tool, the pip upgrade, then
\* one installer call of the new environment per requirement of reqs
\* (VenvCallFirstPackage is the variant whose install loop always names the
\* first requirement)
VenvCallFirstPackage(stage, ok) ==
    IF stage = 0 THEN Call("venv", "create", ok)
    ELSE IF stage = 1 THEN Call("venv-pip", "--upgrade pip", ok)
    ELSE Call("venv-pip", PkgSpec(requirements[1].name, requirements[1].spec), ok)
VenvCall(stage, ok) ==
    IF stage = 0 THEN Call("venv", "create", ok)
    ELSE IF stage = 1 THEN Call("venv-pip", "--upgrade pip", ok)
    ELSE Call("venv-pip", PkgSpec(requirements[stage - 1].name,
                                  requirements[stage - 1].spec), ok)

\* one check_call of create_virtualenv; an exception ends it with False, and
\* check_packages returns whatever it returned
VenvStep ==
    /\ pc = "venv"
    /\ \E ok \in Outcomes :
         /\ calls' = Append(calls, VenvCall(idx, ok))
         /\ IF ~ok
            THEN /\ venv' = "failed"
                 /\ fails' = fails + 1
                 /\ pc' = "after_check"
                 /\ ret' = Returned(<<>>)
                 /\ idx' = idx
            ELSE /\ fails' = fails
                 /\ idx' = idx + 1
                 /\ IF idx + 1 > Len(requirements) + 1
                    THEN /\ venv' = "ok"
                         /\ pc' = "after_check"
                         /\ ret' = Returned(<<>>)
                    ELSE /\ venv' = venv
                         /\ pc' = pc
                         /\ ret' = ret
    /\ UNCHANGED <<input, output, args, module_name, installed, manifest, run, requirements,
                   python_conflicts, version_conflicts, missing_packages,
                   to_install, fr, prompts, wrote, caller, success, exitCode>>

\* ------------------------------------------------------------------ forced mode
\* where the per-package loop goes after the package at idx
\* (AfterForcedReturns is the variant that returns after the first package)
AfterForcedReturns ==
    /\ idx' = idx + 1
    /\ pc' = "after_check"
    /\ ret' = Returned(<<>>)
AfterForced ==
    /\ idx' = idx + 1
    /\ IF idx + 1 > Len(requirements)
       THEN /\ pc' = "after_check"
            /\ ret' = Returned(<<>>)
       ELSE /\ pc' = "force"
            /\ ret' = ret

\* `subprocess.check_call(cmd)` for the package at idx, first attempt
ForceStep ==
    /\ pc = "force"
    /\ \E ok \in Outcomes :
         /\ calls' = Append(calls, Call("pip", PkgSpec(requirements[idx].name,
                                                       requirements[idx].spec), ok))
         /\ IF ok
            THEN fails' = fails /\ AfterForced
            ELSE /\ fails' = fails + 1
                 /\ IF args.force_retry
                    THEN pc' = "force_retry" /\ idx' = idx /\ ret' = ret
                    ELSE AfterForced
    /\ UNCHANGED <<input, output, args, module_name, installed, manifest, run, requirements,
                   python_conflicts, version_conflicts, missing_packages,
                   to_install, fr, prompts, wrote, caller, venv, success, exitCode>>

\* one turn of `while 1: try: subprocess.check_call(cmd); break`
ForceRetry ==
    /\ pc = "force_retry"
    /\ \E ok \in Outcomes :
         /\ calls' = Append(calls, Call("pip", PkgSpec(requirements[idx].name,
                                                       requirements[idx].spec), ok))
         /\ IF ok
            THEN fails' = fails /\ AfterForced
            ELSE /\ fails' = fails + 1
                 /\ UNCHANGED <<pc, idx, ret>>
    /\ UNCHANGED <<input, output, args, module_name, installed, manifest, run, requirements,
                   python_conflicts, version_conflicts, missing_packages,
                   to_install, fr, prompts, wrote, caller, venv, success, exitCode>>

\* ------------------------------------------------------------------ run_pip_install_from_file
\* the manifest after a successful install: Path(file_path).unlink();
\* LeftBehind is the variant that forgets to remove the file
LeftBehind(m) == m
Unlinked(m) == NoManifest

\* the force_retry argument of the recursive call after a failure
RetryForce(force_retry) == FALSE

\* where run_pip_install_from_file returns to, with its result
ReturnInstall(ok) ==
    /\ success' = IF ok THEN "True" ELSE "False"
    /\ IF caller = "main"
       THEN /\ pc' = "done"
            /\ exitCode' = <<0>>
            /\ ret' = ret
       ELSE /\ pc' = "after_check"
            /\ exitCode' = exitCode
            /\ ret' = Returned(to_install)

\* `subprocess.check_call([... "pip", "install", "-r", file_path])`
PipFromFile ==
    /\ pc = "pip_file"
    /\ \E ok \in Outcomes :
         /\ calls' = Append(calls, Call("pip -r", REQ_INSTALL_FILE, ok))
         /\ IF ok
            THEN /\ manifest' = Unlinked(manifest)
                 /\ fails' = fails
                 /\ fr' = fr
                 /\ ReturnInstall(TRUE)
            ELSE /\ manifest' = manifest
                 /\ fails' = fails + 1
                 /\ IF fr
                    THEN /\ fr' = RetryForce(fr)
                         /\ UNCHANGED <<pc, success, ret, exitCode>>
                    ELSE /\ pc' = "prompt"
                         /\ UNCHANGED <<fr, success, ret, exitCode>>
    /\ UNCHANGED <<input, output, args, module_name, installed, run, requirements, idx,
                   python_conflicts, version_conflicts, missing_packages,
                   to_install, prompts, wrote, caller, venv>>

\* what a declined prompt does: `return False`; DeclinedAsSuccess is the
\* variant that reports success to the caller
DeclinedAsSuccess == ReturnInstall(TRUE)
Declined == ReturnInstall(FALSE)

\* `if Confirm.ask("Retry installation?")`
Prompt ==
    /\ pc = "prompt"
    /\ \E yes \in BOOLEAN :
         /\ prompts' = Append(prompts, yes)
         /\ IF yes
            THEN /\ pc' = "pip_file"
                 /\ fr' = RetryForce(fr)
                 /\ UNCHANGED <<success, ret, exitCode>>
            ELSE /\ fr' = fr
                 /\ Declined
    /\ UNCHANGED <<input, output, args, module_name, installed, manifest, run, requirements,
                   idx, python_conflicts, version_conflicts, missing_packages,
                   to_install, fails, calls, wrote, caller, venv>>

\* ------------------------------------------------------------------ main, after check_packages
\* `(not version_conflicts or not python_conflicts) and args.pypi`, then the
\* two early returns
\* InstallsUnlessSuppressed is the variant without the early return on an
\* empty to_install
InstallsUnlessSuppressed ==
    /\ (ret[1].version_conflicts = <<>> \/ ret[1].python_conflicts = <<>>)
    /\ args.pypi
    /\ ~args.no_install
InstallsPypi ==
    /\ (ret[1].version_conflicts = <<>> \/ ret[1].python_conflicts = <<>>)
    /\ args.pypi
    /\ ~(ret[1].to_install = <<>> /\ ~args.no_install)
    /\ ~args.no_install

ReturnsTrue ==
    /\ (ret[1].version_conflicts = <<>> \/ ret[1].python_conflicts = <<>>)
    /\ args.pypi
    /\ ~InstallsPypi

\* the exit status after main returned: the script calls main() and ends
\* with 0; the console entry point passes main's value to sys.exit
ExitCode(name) == IF name # "__main__" /\ ReturnsTrue THEN <<1>> ELSE <<0>>

MainFinish ==
    /\ pc = "after_check"
    /\ IF InstallsPypi
       THEN \E rc \in Outcomes :
              /\ calls' = Append(calls, Call("pip", "--pypi", rc))
              /\ fails' = IF rc THEN fails ELSE fails + 1
       ELSE UNCHANGED <<calls, fails>>
    /\ \E name \in Reads(ReturnsTrue) :
         /\ module_name' = name
         /\ exitCode' = ExitCode(name)
    /\ pc' = "done"
    /\ UNCHANGED <<input, output, args, installed, manifest, run, requirements,
                   idx, python_conflicts, version_conflicts, missing_packages,
                   to_install, fr, prompts, wrote, caller, venv, success, ret>>

\* ------------------------------------------------------------------ the next run
\* the same command is run again in the same directory after a run that
\* left the manifest behind; the environment is as the failed install left
\* it
Restart ==
    /\ pc = "done"
    /\ run < MaxRuns
    /\ manifest.exists
    /\ run' = run + 1
    /\ pc' = "main"
    /\ requirements' = <<>>
    /\ idx' = 1
    /\ python_conflicts' = <<>>
    /\ version_conflicts' = <<>>
    /\ missing_packages' = <<>>
    /\ to_install' = <<>>
    /\ fr' = FALSE
    /\ fails' = 0
    /\ prompts' = <<>>
    /\ calls' = <<>>
    /\ wrote' = -1
    /\ caller' = "check_packages"
    /\ venv' = "none"
    /\ success' = "unset"
    /\ ret' = <<>>
    /\ exitCode' = Running
    /\ UNCHANGED <<input, output, args, module_name, installed, manifest>>

Next ==
    \/ MainResolve
    \/ ScanStep
    \/ Dispatch
    \/ VenvStep
    \/ ForceStep
    \/ ForceRetry
    \/ PipFromFile
    \/ Prompt
    \/ MainFinish
    \/ Restart

Spec == Init /\ [][Next]_vars

\* ------------------------------------------------------------------ outcomes
\* the outcome the second loop of check_packages shows for one requirement
Classify(req) ==
    LET inst_ver == MetadataVersion(req.name) IN
    IF inst_ver = NoVer THEN "NotInstalled"
    ELSE IF Truthy(req.spec)
    THEN IF SpecOp(req.spec) = "=="
         THEN IF inst_ver = SpecVer(req.spec) THEN "ExactMatch" ELSE "Mismatch"
         ELSE IF InSpecifierSet(inst_ver, req.spec) THEN "Satisfied"
              ELSE "OutOfRange"
    ELSE "NoConstraint"

\* the requirements of reqs whose outcome is in kinds, in order
RECURSIVE WithOutcome(_, _)
WithOutcome(reqs, kinds) ==
    IF reqs = <<>> THEN <<>>
    ELSE IF Classify(Head(reqs)) \in kinds
    THEN <<Head(reqs)>> \o WithOutcome(Tail(reqs), kinds)
    ELSE WithOutcome(Tail(reqs), kinds)

Conflicting(reqs) == WithOutcome(reqs, {"Mismatch", "OutOfRange"})
NotInstalled(reqs) == WithOutcome(reqs, {"NotInstalled"})

\* the calls with an operation in ops, in order
RECURSIVE CallsOf(_, _)
CallsOf(cs, ops) ==
    IF cs = <<>> THEN <<>>
    ELSE IF Head(cs).op \in ops THEN <<Head(cs)>> \o CallsOf(Tail(cs), ops)
    ELSE CallsOf(Tail(cs), ops)

\* installer calls against the ambient environment, calls that provision
\* the isolated environment, installs from the manifest
AmbientCalls == CallsOf(calls, {"pip", "pip -r"})
VenvCalls == CallsOf(calls, {"venv", "venv-pip"})
FileCalls == CallsOf(calls, {"pip -r"})
FailedFileCalls == SelectSeq(FileCalls, LAMBDA c : ~c.ok)
Accepted == SelectSeq(prompts, LAMBDA yes : yes)

\* check_packages has returned
Returned_ == ret # <<>>

\* ------------------------------------------------------------------ claims

\* C1: once a requirement has produced a python-runtime conflict, the run
\* starts no installer and provisions no environment, and it ends with a
\* failure status.
C1_RuntimeConflictAborts ==
    python_conflicts # <<>> =>
        /\ calls = <<>>
        /\ pc = "done" => exitCode = <<1>>

\* C2: in auto-install mode without force-install, when any requirement of
\* the list (at any position) has an installed version outside its
\* constraint and there is no runtime conflict, check_packages returns
\* having provisioned the isolated environment and never having called the
\* installer of the ambient environment.
C2_AnyConflictIsolates ==
    ( /\ Returned_
      /\ Conflicting(requirements) # <<>>
      /\ python_conflicts = <<>>
      /\ ~args.force_install
      /\ ~args.no_install )
    => (VenvCalls # <<>> /\ AmbientCalls = <<>>)

\* C3: when the first loop of check_packages has gone through the whole
\* list (and met no runtime conflict), version_conflicts holds exactly one
\* entry (name, installed version, constraint) for every requirement whose
\* outcome is Mismatch or OutOfRange, in order.
C3_ConflictsComplete ==
    (pc = "dispatch" /\ python_conflicts = <<>>) =>
        version_conflicts =
            [i \in DOMAIN Conflicting(requirements) |->
                [pkg |-> Conflicting(requirements)[i].name,
                 installed |-> MetadataVersion(Conflicting(requirements)[i].name),
                 required |-> Conflicting(requirements)[i].spec]]

\* C4: when check_packages returns on the direct-install path (no runtime
\* conflict, no isolation, no forced mode), the returned to_install and
\* the returned missing list both hold exactly the requirements whose
\* outcome is NotInstalled.
C4_MissingReturned ==
    (Returned_ /\ python_conflicts = <<>> /\ venv = "none" /\ ~args.force_install) =>
        LET absent == NotInstalled(requirements) IN
        /\ ret[1].to_install =
               [i \in DOMAIN absent |-> PkgSpec(absent[i].name, absent[i].spec)]
        /\ ret[1].missing_packages =
               [i \in DOMAIN absent |-> [pkg |-> absent[i].name, spec |-> absent[i].spec]]

\* C5: in summary-only mode a run without a runtime conflict starts no
\* installer, provisions no isolated environment and writes no manifest,
\* whatever the other flags.
C5_SummaryMutatesNothing ==
    (args.summary /\ python_conflicts = <<>>) => (calls = <<>> /\ wrote = -1)

\* C6: a run started without FILE and without --pypi in a directory where
\* a failed batch install of the run before (a run that met no runtime
\* conflict) left its non-empty manifest takes the install from that
\* manifest as its first step, whatever else the directory holds.
C6_ManifestRetriedFirst ==
    ( /\ run > 1 /\ pc = "main" /\ ~args.pypi /\ module_name = Unread
      /\ manifest.exists /\ manifest.lines # <<>> )
    => \A tc \in {"noreqs", "reqs"}, cwd \in CwdStates,
          decl \in ReqLists(SpecTexts \cup {None}) :
            cwd[REQ_INSTALL_FILE] = ManifestContent =>
                Resolve(FALSE, [kind |-> "none", name |-> ""], tc, cwd, decl).startup

C8_ForcedRetryNeverPrompts ==
    args.force_retry => (pc # "prompt" /\ prompts = <<>> /\ success # "False")

\* C9 as stated: without retry-forced mode a batch sees at most one prompt
\* and at most two installs from the manifest.
C9_SinglePrompt ==
    ~args.force_retry => (Len(prompts) <= 1 /\ Len(FileCalls) <= 2)

\* C9 amended: without retry-forced mode the user is asked after every
\* failed install from the manifest, every accepted prompt starts exactly
\* one more install, and run_pip_install returns failure exactly when a
\* prompt was declined.
C9_PromptAfterEveryFailure ==
    ~args.force_retry =>
        /\ Len(prompts) = Len(FailedFileCalls) - (IF pc = "prompt" THEN 1 ELSE 0)
        /\ FileCalls # <<>> =>
              Len(FileCalls) = Len(Accepted) + (IF pc = "pip_file" THEN 0 ELSE 1)
        /\ success = "False" <=> (prompts # <<>> /\ ~prompts[Len(prompts)])
        /\ success = "True" => Accepted = prompts

\* C9 witness: a retry was accepted, the retry failed, the user was asked
\* again and declined.
C9_Witness ==
    /\ ~args.force_retry
    /\ Len(prompts) = 2
    /\ Len(FileCalls) = 2
    /\ success = "False"

\* C10: a run whose batch install failed without a further retry ends with
\* a non-zero exit status.
C10_FailedInstallExitsNonZero ==
    (pc = "done" /\ success = "False" /\ python_conflicts = <<>>) => exitCode # <<0>>

\* C11: without --pypi, a run whose requirement source yielded no
\* requirement has ended with a non-zero exit status and has not entered
\* check_packages.
C11_EmptySourceExits ==
    (pc # "main" /\ ~args.pypi /\ requirements = <<>>) =>
        (pc = "done" /\ exitCode # Running /\ exitCode # <<0>>)

\* C12: in one run at most one of the two happens: the isolated
\* environment is provisioned, the installer is called against the ambient
\* environment (by check_packages or by the follow-up of main).
C12_RemediesExclusive ==
    VenvCalls = <<>> \/ AmbientCalls = <<>>

\* C12 witness: a run with --pypi has provisioned the isolated environment
\* and has gone through the follow-up of main.
C12_Witness ==
    /\ pc = "done"
    /\ args.pypi
    /\ venv = "ok"
    /\ VenvCalls # <<>>

\* C13: when create_virtualenv has reported success, the calls that
\* provisioned the environment are the venv tool, the pip upgrade and then
\* one successful install per requirement of the list check_packages was
\* given, in the order of the list, and nothing was installed into the
\* ambient environment; when one of those calls failed, create_virtualenv
\* has reported failure.
C13_IsolationInstallsAll ==
    /\ venv = "ok" =>
          /\ VenvCalls =
                <<Call("venv", "create", TRUE), Call("venv-pip", "--upgrade pip", TRUE)>>
                \o [i \in 1..Len(requirements) |->
                       Call("venv-pip",
                            PkgSpec(requirements[i].name, requirements[i].spec), TRUE)]
          /\ AmbientCalls = <<>>
    /\ (\E k \in DOMAIN VenvCalls : ~VenvCalls[k].ok) => venv = "failed"

\* C13 witness: provisioning succeeded for a list of two requirements of
\* which one only is in conflict.
C13_Witness ==
    /\ venv = "ok"
    /\ Len(requirements) = 2
    /\ Len(Conflicting(requirements)) = 1

\* the per-package installer calls of check_packages, and a sequence
\* without its immediate repetitions
PackageCalls == CallsOf(calls, {"pip"})
RECURSIVE Collapse(_)
Collapse(seq) ==
    IF Len(seq) < 2 THEN seq
    ELSE IF seq[1] = seq[2] THEN Collapse(Tail(seq))
    ELSE <<seq[1]>> \o Collapse(Tail(seq))

\* check_packages has returned without the isolate remedy, main has not
\* gone on yet
DirectReturned == pc = "after_check" /\ venv = "none"

\* C14 as stated: on the direct-install path forced mode calls the
\* installer exactly once per declared requirement; without forced mode a
\* non-empty to_install gets exactly one install from the manifest (read
\* for a run that is neither summary-only nor without auto-install), an
\* empty one no installer call at all.
C14_OncePerPackageOrBatch ==
    DirectReturned =>
        IF args.force_install
        THEN /\ [k \in DOMAIN PackageCalls |-> PackageCalls[k].arg] =
                    [i \in DOMAIN requirements |->
                        PkgSpec(requirements[i].name, requirements[i].spec)]
             /\ FileCalls = <<>>
        ELSE IF ret[1].to_install # <<>> /\ ~args.summary /\ ~args.no_install
        THEN Len(FileCalls) = 1 /\ PackageCalls = <<>>
        ELSE AmbientCalls = <<>>

\* C14 amended: on the direct-install path forced mode calls the installer
\* for every declared requirement in declared order, once, and again only
\* after a failure in retry-forced mode, where it goes on until the call
\* succeeds; without forced mode, a non-empty to_install gets one install
\* from the manifest plus one per retry after a failure, unless the run is
\* summary-only or auto-install is suppressed; in every other case
\* check_packages calls no installer.
C14_DirectInstallCalls ==
    DirectReturned =>
        IF args.force_install
        THEN /\ Collapse([k \in DOMAIN PackageCalls |-> PackageCalls[k].arg]) =
                    [i \in DOMAIN requirements |->
                        PkgSpec(requirements[i].name, requirements[i].spec)]
             /\ FileCalls = <<>>
             /\ ~args.force_retry => Len(PackageCalls) = Len(requirements)
             /\ args.force_retry =>
                   \A k \in DOMAIN PackageCalls :
                      IF PackageCalls[k].ok
                      THEN k < Len(PackageCalls) =>
                              PackageCalls[k + 1].arg # PackageCalls[k].arg
                      ELSE /\ k < Len(PackageCalls)
                           /\ PackageCalls[k + 1].arg = PackageCalls[k].arg
        ELSE IF ret[1].to_install # <<>> /\ ~args.summary /\ ~args.no_install
        THEN /\ PackageCalls = <<>>
             /\ FileCalls # <<>>
             /\ \A k \in 1..(Len(FileCalls) - 1) : ~FileCalls[k].ok
        ELSE AmbientCalls = <<>>

\* C14 witness: forced mode with retry-forced mode has installed two
\* requirements in three calls, one of them a retry.
C14_Witness ==
    /\ DirectReturned
    /\ args.force_install /\ args.force_retry
    /\ Len(requirements) = 2
    /\ Len(PackageCalls) = 3

\* the requirements whose constraint is Unspecified: None or the empty text
Unspecified(reqs) == {i \in DOMAIN reqs : ~Truthy(reqs[i].spec)}

\* C16: a requirement whose constraint is Unspecified (None or empty) never
\* appears in version_conflicts, whatever version of its package is installed
\* and whatever the other requirements of the list are.
C16_UnspecifiedNeverConflicts ==
    \A k \in DOMAIN version_conflicts :
        /\ Truthy(version_conflicts[k].required)
        /\ \A i \in Unspecified(requirements) :
               requirements[i].name # version_conflicts[k].pkg

\* C16 witness: the scan has passed an installed package without a constraint
\* and then recorded a conflict for the next requirement of the list.
C16_Witness ==
    /\ pc = "dispatch"
    /\ Len(requirements) = 2
    /\ 1 \in Unspecified(requirements)
    /\ MetadataVersion(requirements[1].name) # NoVer
    /\ version_conflicts # <<>>

\* the run with no FILE argument
NoTarget == [kind |-> "none", name |-> ""]

\* the first of requirements.txt, requirements-install.txt, setup.py and
\* pyproject.toml that holds requirements, and the function that reads it
SearchOrder == <<REQ_FILE, REQ_INSTALL_FILE, "setup.py", "pyproject.toml">>
Holding(cwd) == {i \in DOMAIN SearchOrder : cwd[SearchOrder[i]] = "reqs"}
FirstHolding(cwd) == SearchOrder[CHOOSE i \in Holding(cwd) : \A j \in Holding(cwd) : i <= j]
ReaderOf(file) ==
    CASE file = "setup.py" -> "parse_setup_py"
      [] file = "pyproject.toml" -> "parse_pyproject_toml"
      [] OTHER -> "parse_requirements"

\* C27: with no FILE and no --pypi the source is searched in the order
\* requirements.txt, requirements-install.txt, setup.py, pyproject.toml:
\* whenever the run goes on to check requirements, they come from the first
\* of these files that holds requirements.
C27_SearchOrder ==
    (pc = "main" /\ ~args.pypi) =>
        \A tc \in {"noreqs", "reqs"}, cwd \in CwdStates,
           decl \in ReqLists(SpecTexts \cup {None}) :
            LET r == Resolve(FALSE, NoTarget, tc, cwd, decl) IN
            ( /\ cwd[REQ_INSTALL_FILE] = ManifestContent
              /\ Holding(cwd) # {}
              /\ r.exit = Running /\ ~r.startup ) =>
                r.parser = ReaderOf(FirstHolding(cwd))

\* C29: a run whose FILE is an existing file named setup.py takes its
\* requirements from parse_setup_py, not from the scan of the imports.
C29_SetupPyTarget ==
    pc = "main" =>
        \A cwd \in CwdStates, decl \in ReqLists(SpecTexts \cup {None}) :
            LET r == Resolve(args.pypi, [kind |-> "file", name |-> "setup.py"],
                             "reqs", cwd, decl) IN
            (cwd[REQ_INSTALL_FILE] = ManifestContent /\ r.exit = Running) =>
                r.parser = "parse_setup_py"

\* C28: a run with --no-install and without --force-install starts no
\* installer, provisions no environment and writes no manifest, whatever the
\* requirements are and for a remote package as well.
C28_NoInstallMutatesNothing ==
    (args.no_install /\ ~args.force_install) => (calls = <<>> /\ wrote = -1)

\* C28 witness: a run with --no-install for a remote package has ended after
\* it found a version conflict and a package that is not installed.
C28_Witness ==
    /\ pc = "done" /\ exitCode = <<0>>
    /\ args.no_install /\ ~args.force_install /\ ~args.summary /\ args.pypi
    /\ version_conflicts # <<>>
    /\ Len(NotInstalled(requirements)) = 1

\* ------------------------------------------------------------------ text
\* A Python str is a sequence of one-character strings.
Digits == <<"0", "1", "2", "3", "4", "5", "6", "7", "8", "9">>
IsDigit(c) == \E d \in DOMAIN Digits : Digits[d] = c
DigitValue(c) == (CHOOSE d \in DOMAIN Digits : Digits[d] = c) - 1

\* s.startswith(p)
StartsWith(s, p) == Len(s) >= Len(p) /\ SubSeq(s, 1, Len(p)) = p

\* s.find(p) + 1: the first position at which p occurs in s, 0 if none
Find(s, p) ==
    LET at == {i \in 1..(Len(s) - Len(p) + 1) : SubSeq(s, i, i + Len(p) - 1) = p}
    IN  IF at = {} THEN 0 ELSE CHOOSE i \in at : \A j \in at : i <= j

\* `p in s`
Contains(s, p) == Find(s, p) # 0

\* s.split(sep)
RECURSIVE Split(_, _)
Split(s, sep) ==
    LET i == Find(s, sep) IN
    IF i = 0 THEN <<s>>
    ELSE <<SubSeq(s, 1, i - 1)>> \o Split(SubSeq(s, i + Len(sep), Len(s)), sep)

\* sep.join(parts)
RECURSIVE Join(_, _)
Join(parts, sep) ==
    IF parts = <<>> THEN <<>>
    ELSE IF Len(parts) = 1 THEN parts[1]
    ELSE parts[1] \o sep \o Join(Tail(parts), sep)

\* s.strip(), for the blank
RECURSIVE LStrip(_)
LStrip(s) == IF s # <<>> /\ s[1] = " " THEN LStrip(Tail(s)) ELSE s
RECURSIVE RStrip(_)
RStrip(s) ==
    IF s # <<>> /\ s[Len(s)] = " " THEN RStrip(SubSeq(s, 1, Len(s) - 1)) ELSE s
Strip(s) == RStrip(LStrip(s))

\* s.replace(" ", "")
Unspaced(s) == SelectSeq(s, LAMBDA c : c # " ")

\* re.match(r"^\d+$", s)
IsNumber(s) == s # <<>> /\ \A i \in DOMAIN s : IsDigit(s[i])

\* the value of a string of digits
RECURSIVE NumberValue(_)
NumberValue(s) ==
    IF s = <<>> THEN 0
    ELSE 10 * NumberValue(SubSeq(s, 1, Len(s) - 1)) + DigitValue(s[Len(s)])

\* str(n) for a natural number
RECURSIVE Str(_)
Str(n) == IF n < 10 THEN <<Digits[n + 1]>> ELSE Str(n \div 10) \o <<Digits[(n % 10) + 1]>>

\* ------------------------------------------------------------------ versions
\* version.parse: the release of a version text, for the texts made of
\* dotted numbers; any other text is no version
IsVersion(s) ==
    LET parts == Split(Strip(s), <<".">>) IN \A i \in DOMAIN parts : IsNumber(parts[i])
Release(s) ==
    LET parts == Split(Strip(s), <<".">>) IN [i \in DOMAIN parts |-> NumberValue(parts[i])]

\* comparison of two releases, the shorter one padded with zeros: -1, 0, 1
Component(r, i) == IF i <= Len(r) THEN r[i] ELSE 0
Compare(a, b) ==
    LET n == IF Len(a) > Len(b) THEN Len(a) ELSE Len(b)
        differ == {i \in 1..n : Component(a, i) # Component(b, i)}
    IN  IF differ = {} THEN 0
        ELSE LET i == CHOOSE k \in differ : \A j \in differ : k <= j
             IN  IF Component(a, i) < Component(b, i) THEN 0 - 1 ELSE 1

\* the operators of a specifier, longest first
SpecifierOps == << <<"=", "=">>, <<">", "=">>, <<"<", "=">>, <<"<">>, <<">">> >>
OpOf(clause) ==
    LET k == CHOOSE i \in DOMAIN SpecifierOps :
                 /\ StartsWith(clause, SpecifierOps[i])
                 /\ \A j \in 1..(i - 1) : ~StartsWith(clause, SpecifierOps[j])
    IN  SpecifierOps[k]

\* `iv in Specifier(clause)`
InSpecifier(iv, clause) ==
    LET op == OpOf(Strip(clause))
        c == Compare(iv, Release(SubSeq(Strip(clause), Len(op) + 1, Len(Strip(clause)))))
    IN  CASE op = <<"=", "=">> -> c = 0
          [] op = <<">", "=">> -> c >= 0
          [] op = <<"<", "=">> -> c <= 0
          [] op = <<"<">> -> c < 0
          [] OTHER -> c > 0

\* `iv in SpecifierSet(spec)`: every clause of the comma list holds
InSpecifiers(iv, spec) ==
    \A i \in DOMAIN Split(spec, <<",">>) : InSpecifier(iv, Split(spec, <<",">>)[i])

\* ------------------------------------------------------------------ the table loop
\* An optional text is <<>> for None and <<text>> for a str.
Absent == <<>>
Some(s) == <<s>>
IsTruthy(opt) == opt # Absent /\ opt[1] # <<>>

\* the status the second loop of check_packages gives one requirement:
\* the set of the outcomes the installed packaging library can produce.
\* version.parse of a text that is no version raises InvalidVersion in
\* packaging 22 and later and returns a LegacyVersion, equal to no Version,
\* before
Statuses(inst_ver, spec) ==
    IF inst_ver = Absent THEN {"NotInstalled"}
    ELSE IF IsTruthy(spec)
    THEN IF Contains(spec[1], <<"=", "=">>)
         THEN LET req_ver == Split(spec[1], <<"=", "=">>)[2] IN
              IF ~IsVersion(req_ver) THEN {"raise", "Mismatch"}
              ELSE IF Compare(Release(inst_ver[1]), Release(req_ver)) = 0
              THEN {"ExactMatch"} ELSE {"Mismatch"}
         ELSE IF InSpecifiers(Release(inst_ver[1]), spec[1])
              THEN {"Satisfied"} ELSE {"OutOfRange"}
    ELSE {"NoConstraint"}

\* the installed versions and the constraints the loop is run on
InstalledTexts ==
    {Absent, Some(<<"1">>), Some(<<"1", ".", "0">>), Some(<<"1", ".", "5">>),
     Some(<<"2">>)}
ConstraintTexts ==
    {Absent, Some(<<>>),
     Some(<<"=", "=", "1", ".", "0", ".", "0">>),
     Some(<<"=", "=", "2">>),
     Some(<<">", "=", "1", ".", "5">>),
     Some(<<"<", "2">>),
     Some(<<">", "=", "1", ",", "<", "2">>),
     Some(<<">", "=", "1", ",", "=", "=", "2">>),
     Some(<<"=", "=", "2", ",", ">", "=", "1">>)}

\* ------------------------------------------------------------------ convert_spec
\* What a call gives: the value it returns and whether it printed a warning,
\* or the exception it raises.
Return(value, warned) == [exc |-> None, value |-> value, warned |-> warned]
Raise(exc) == [exc |-> exc, value |-> <<>>, warned |-> FALSE]

\* int(s), for the texts without sign and underscore: blanks around the
\* digits are skipped, any other text raises ValueError
IsInt(s) == IsNumber(Strip(s))
int(s) == NumberValue(Strip(s))

\* parts += ["0"] * (3 - len(parts))
Padded(parts) == parts \o [i \in 1..(3 - Len(parts)) |-> <<"0">>]

\* `major, minor, patch = map(int, parts)` succeeds: three parts, all of
\* them integers; anything else is a ValueError
Unpacks(parts) == Len(parts) = 3 /\ \A i \in DOMAIN parts : IsInt(parts[i])

\* "a.b.c" for the numbers a, b, c
Dotted(ns) == Join([i \in DOMAIN ns |-> Str(ns[i])], <<".">>)

\* convert_caret with the major component bumped whatever its value
convert_caret_BumpMajor(version) ==
    LET parts == Padded(Split(version, <<".">>)) IN
    IF ~Unpacks(parts) THEN Raise("ValueError")
    ELSE Return(<<">", "=">> \o version \o <<",", "<">> \o Dotted(<<int(parts[1]) + 1, 0, 0>>), FALSE)

convert_caret(version) ==
    LET parts == Padded(Split(version, <<".">>)) IN
    IF ~Unpacks(parts) THEN Raise("ValueError")
    ELSE LET major == int(parts[1])
             minor == int(parts[2])
             patch == int(parts[3])
             upper == IF major > 0 THEN Dotted(<<major + 1, 0, 0>>)
                      ELSE IF minor > 0 THEN Dotted(<<0, minor + 1, 0>>)
                      ELSE Dotted(<<0, 0, patch + 1>>)
         IN  Return(<<">", "=">> \o version \o <<",", "<">> \o upper, FALSE)

\* convert_tilde with the padded version as its lower bound
convert_tilde_PaddedLower(version) ==
    LET parts == Padded(Split(version, <<".">>)) IN
    IF ~Unpacks(parts) THEN Raise("ValueError")
    ELSE Return(<<">", "=">> \o Dotted(<<int(parts[1]), int(parts[2]), int(parts[3])>>)
                \o <<",", "<">> \o Dotted(<<int(parts[1]), int(parts[2]) + 1, 0>>), FALSE)

convert_tilde(version) ==
    LET parts == Padded(Split(version, <<".">>)) IN
    IF ~Unpacks(parts) THEN Raise("ValueError")
    ELSE LET major == int(parts[1])
             minor == int(parts[2])
             upper == Dotted(<<major, minor + 1, 0>>)
         IN  Return(<<">", "=">> \o version \o <<",", "<">> \o upper, FALSE)

\* convert_wildcard reading the major component only
convert_wildcard_MajorOnly(spec) ==
    LET parts == Split(spec, <<".">>) IN
    IF ~IsInt(parts[1]) THEN Raise("ValueError")
    ELSE Return(<<">", "=">> \o Dotted(<<int(parts[1]), 0>>)
                \o <<",", "<">> \o Dotted(<<int(parts[1]) + 1, 0>>), FALSE)

convert_wildcard(spec) ==
    LET parts == Split(spec, <<".">>) IN
    IF ~IsInt(parts[1]) THEN Raise("ValueError")
    ELSE LET major == int(parts[1]) IN
         IF Len(parts) = 2 /\ parts[2] = <<"*">>
         THEN Return(<<">", "=">> \o Dotted(<<major, 0>>)
                     \o <<",", "<">> \o Dotted(<<major + 1, 0>>), FALSE)
         ELSE IF Len(parts) = 3 /\ parts[3] = <<"*">>
         THEN IF ~IsInt(parts[2]) THEN Raise("ValueError")
              ELSE LET minor == int(parts[2]) IN
                   Return(<<">", "=">> \o Dotted(<<major, minor, 0>>)
                          \o <<",", "<">> \o Dotted(<<major, minor + 1, 0>>), FALSE)
         ELSE Return(<<>>, TRUE)

\* re.match(r"^(>=|<=|<|>|==)", spec)
IsRange(spec) ==
    \E op \in {<<">", "=">>, <<"<", "=">>, <<"<">>, <<">">>, <<"=", "=">>} : StartsWith(spec, op)

\* re.match(r"^\d+(\.\d+)*$", spec)
IsExact(spec) ==
    LET parts == Split(spec, <<".">>) IN \A i \in DOMAIN parts : IsNumber(parts[i])

RECURSIVE convert_spec(_)
convert_spec(text) ==
    LET spec == Strip(text)
        \* sep.join([convert_spec(x) for x in spec.split(at)])
        Each(at, sep) ==
            LET xs == Split(spec, at)
                parts == [i \in DOMAIN xs |-> convert_spec(xs[i])]
            IN  IF \E i \in DOMAIN parts : parts[i].exc # None
                THEN Raise("ValueError")
                ELSE Return(Join([i \in DOMAIN parts |-> parts[i].value], sep),
                            \E i \in DOMAIN parts : parts[i].warned)
    IN  IF Contains(spec, <<"|">>) THEN Each(<<"|">>, <<" ", "|", " ">>)
        ELSE IF Contains(spec, <<",">>) THEN Each(<<",">>, <<",">>)
        ELSE IF StartsWith(spec, <<"^">>) THEN convert_caret(Strip(Tail(spec)))
        ELSE IF StartsWith(spec, <<"~">>) THEN convert_tilde(Strip(Tail(spec)))
        ELSE IF Contains(spec, <<"*">>) THEN convert_wildcard(spec)
        ELSE IF IsRange(spec) THEN Return(Unspaced(spec), FALSE)
        ELSE IF IsExact(spec) THEN Return(<<"=", "=">> \o spec, FALSE)
        ELSE Return(<<>>, TRUE)

\* the version components the constraints are written with
Components == 0..MaxComponent

\* the versions of n components
VersionsOf(n) == {Dotted(ns) : ns \in [1..n -> Components]}

\* the texts convert_spec is run on: the carets, tildes and wildcards of up
\* to three components, and the other shapes one by one
CaretTexts == {<<"^">> \o v : v \in VersionsOf(1) \cup VersionsOf(2) \cup VersionsOf(3)}
TildeTexts == {<<"~">> \o v : v \in VersionsOf(1) \cup VersionsOf(2) \cup VersionsOf(3)}
WildcardTexts == {v \o <<".", "*">> : v \in VersionsOf(1) \cup VersionsOf(2)}
OtherTexts ==
    {<<"^", "1", ".", "2", ".", "3", ".", "4">>,
     <<"^", "a">>,
     <<"^">>,
     <<"^", " ", "1", ".", "2", ".", "3">>,
     <<" ", "^", "1", ".", "2", ".", "3", " ">>,
     <<"~", "=", "1", ".", "2">>,
     <<"~", "1", ".", "2", ".", "3", ".", "4">>,
     <<"~", "a">>,
     <<"~", " ", "1", ".", "2">>,
     <<"*">>,
     <<"x", ".", "*">>,
     <<"1", ".", "*", ".", "*">>,
     <<"1", ".", "x", ".", "*">>,
     <<"1", ".", "2", ".", "3", ".", "*">>,
     <<"1", ".", "*", ".", "0">>,
     <<"a", "b", "c">>,
     <<>>,
     <<"!", "=", "1">>,
     <<">", "=", " ", "1", ".", "2">>,
     <<">", "=", "1", ".", "2">>,
     <<"<", "2">>,
     <<"<", "=", "2">>,
     <<">", "1">>,
     <<"=", "=", "1", ".", "0">>,
     <<"1", ".", "2", ".", "3">>,
     <<"1">>,
     <<"1", ".">>,
     <<">", "=", "1", ",", "<", "2">>,
     <<"^", "1", ".", "2", ".", "3", ",", "<", "1", ".", "5">>,
     <<"^", "a", ",", "<", "2">>,
     <<"a", "b", "c", ",", ">", "=", "1">>,
     <<"^", "1", "|", "^", "2">>,
     <<">", "=", "1", " ", "|", " ", "<", "0", ".", "5">>,
     <<"*", "|", "1">>,
     <<"^", "1", " ", ".", "2", ".", "3">>,
     <<"~", "1", " ", ".", "2">>,
     <<"a", "b", "c", "|", "1">>}

\* ------------------------------------------------------------------ functions on their own
\* A function of pipr.py called with one argument drawn from its inputs:
\* the program itself stays where Init puts it.
Parked ==
    /\ args = [pypi |-> FALSE, force_retry |-> FALSE, force_install |-> FALSE,
               summary |-> FALSE, no_install |-> FALSE]
    /\ module_name = Unread
    /\ installed = [p \in Pkgs |-> NoVer]
    /\ manifest = NoManifest
    /\ run = 1
    /\ pc = "function"
    /\ requirements = <<>>
    /\ idx = 1
    /\ python_conflicts = <<>>
    /\ version_conflicts = <<>>
    /\ missing_packages = <<>>
    /\ to_install = <<>>
    /\ fr = FALSE
    /\ fails = 0
    /\ prompts = <<>>
    /\ calls = <<>>
    /\ wrote = -1
    /\ caller = "check_packages"
    /\ venv = "none"
    /\ success = "unset"
    /\ ret = <<>>
    /\ exitCode = Running

Called(fn, argument) == [fn |-> fn, arg |-> <<argument>>]

StatusInputs ==
    {Called("status", [inst_ver |-> iv, spec |-> sp]) :
        iv \in InstalledTexts, sp \in ConstraintTexts}

\* the table loop's status for one requirement
StatusCall ==
    /\ input.fn = "status"
    /\ output = <<>>
    /\ output' \in {<<st>> : st \in Statuses(input.arg[1].inst_ver, input.arg[1].spec)}
    /\ UNCHANGED <<progVars, input>>

\* ------------------------------------------------------------------ parse_deps
Letters ==
    {"a", "b", "c", "d", "e", "f", "g", "h", "i", "j", "k", "l", "m", "n",
     "o", "p", "q", "r", "s", "t", "u", "v", "w", "x", "y", "z", "A", "B",
     "C", "D", "E", "F", "G", "H", "I", "J", "K", "L", "M", "N", "O", "P",
     "Q", "R", "S", "T", "U", "V", "W", "X", "Y", "Z"}

\* [A-Za-z0-9_.-]
NameChar(c) == c \in Letters \/ IsDigit(c) \/ c \in {"_", ".", "-"}

\* re.match(r"([A-Za-z0-9_.-]+)(.*)", line): the length of the first group,
\* 0 when the line does not match
NameLen(line) ==
    LET ns == {n \in 0..Len(line) : \A i \in 1..n : NameChar(line[i])}
    IN  CHOOSE n \in ns : \A m \in ns : m <= n

\* what one line appends to reqs: (name, spec if spec else None), or nothing
NameAndSpec(line) ==
    LET n == NameLen(line)
        spec == Strip(SubSeq(line, n + 1, Len(line)))
    IN  IF n = 0 THEN <<>>
        ELSE <<[name |-> SubSeq(line, 1, n),
                spec |-> IF spec # <<>> THEN Some(spec) ELSE Absent]>>

RECURSIVE parse_deps(_)
parse_deps(deps) ==
    IF deps = <<>> THEN <<>>
    ELSE NameAndSpec(Head(deps)) \o parse_deps(Tail(deps))

\* ------------------------------------------------------------------ parse_pyproject_toml
\* A value of [tool.poetry.dependencies] is a string, or a table that may
\* hold a `version`.
Version(text) == [table |-> FALSE, version |-> Some(text)]
Table(version) == [table |-> TRUE, version |-> version]

\* the loop over poetry['dependencies'].items(): the names added to deps, and
\* whether an exception ended the loop. `ver.get('version')` is None for a
\* table without the key, and convert_spec(None) raises AttributeError
RECURSIVE PoetryDeps(_, _)
PoetryDeps(entries, deps) ==
    IF entries = <<>> THEN [deps |-> deps, failed |-> FALSE]
    ELSE LET dep == Head(entries).dep
             ver == Head(entries).ver.version
         IN  IF ver = Absent \/ convert_spec(ver[1]).exc # None
             THEN [deps |-> deps, failed |-> TRUE]
             ELSE PoetryDeps(Tail(entries),
                     IF dep # <<"p", "y", "t", "h", "o", "n">> THEN deps \cup {dep \o convert_spec(ver[1]).value}
                     ELSE deps)

\* the lists that hold the elements of a set once each: the orders in which
\* a set can be iterated
Orders(S) ==
    {order \in [1..Cardinality(S) -> S] :
        \A i, j \in DOMAIN order : order[i] = order[j] => i = j}

\* parse_pyproject_toml of a file with the [project] dependencies and the
\* [tool.poetry.dependencies] table given: the lists it can return
parse_pyproject_toml(data) ==
    IF ~data.toml THEN {Return(<<>>, TRUE)}
    ELSE LET poetry == PoetryDeps(data.poetry,
                                  {data.project[i] : i \in DOMAIN data.project})
         IN  {Return(parse_deps(order), poetry.failed) : order \in Orders(poetry.deps)}

\* the entries a pyproject.toml is written with
PoetryEntries ==
    {[dep |-> <<"r", "e", "q", "u", "e", "s", "t", "s">>, ver |-> Version(<<"^", "2", ".", "0">>)],
     [dep |-> <<"f", "l", "a", "s", "k">>, ver |-> Version(<<">", "=", "1", ".", "0">>)],
     [dep |-> <<"n", "u", "m", "p", "y">>, ver |-> Table(Some(<<"1", ".", "2">>))],
     [dep |-> <<"m", "y", "l", "i", "b">>, ver |-> Table(Absent)],
     [dep |-> <<"a", "t", "t", "r", "s">>, ver |-> Version(<<"^", "a">>)],
     [dep |-> <<"p", "y", "t", "h", "o", "n">>, ver |-> Version(<<"^", "3", ".", "8">>)]}

\* a table has one entry for a name
PoetryTables ==
    {entries \in UNION {[1..n -> PoetryEntries] : n \in 0..MaxEntries} :
        \A i, j \in DOMAIN entries : entries[i].dep = entries[j].dep => i = j}

ProjectLists == {<<>>, <<<<"R", "e", "q", "u", "e", "s", "t", "s", "[", "s", "e", "c", "u", "r", "i", "t", "y", "]", ">", "=", "2", ".", "0">>>>}

PyprojectInputs ==
    {Called("parse_pyproject_toml", [toml |-> toml, project |-> project, poetry |-> poetry]) :
        toml \in BOOLEAN, project \in ProjectLists, poetry \in PoetryTables}

PyprojectCall ==
    /\ input.fn = "parse_pyproject_toml"
    /\ output = <<>>
    /\ output' \in {<<r>> : r \in parse_pyproject_toml(input.arg[1])}
    /\ UNCHANGED <<progVars, input>>

\* ------------------------------------------------------------------ parse_requirements
\* platform.system().lower()
Platforms == {"windows", "linux", "darwin"}

\* s.split(sep, 1), for a text that holds sep
SplitOnce(s, sep) ==
    LET i == Find(s, sep) IN <<SubSeq(s, 1, i - 1), SubSeq(s, i + Len(sep), Len(s))>>

\* whether the marker of a line makes the loop go on to the next line
Skipped(cond, sys_name) ==
    /\ Contains(cond, <<"s", "y", "s", "_", "p", "l", "a", "t", "f", "o", "r", "m">>)
    /\ \/ Contains(cond, <<"w", "i", "n", "3", "2">>) /\ sys_name # "windows"
       \/ Contains(cond, <<"l", "i", "n", "u", "x">>) /\ sys_name # "linux"

\* what one line of the file appends to reqs
FromLine(text, sys_name) ==
    LET line == Strip(text) IN
    IF line = <<>> \/ StartsWith(line, <<"#">>) THEN <<>>
    ELSE IF Contains(line, <<";">>)
    THEN LET pkg == Strip(SplitOnce(line, <<";">>)[1])
             cond == Strip(SplitOnce(line, <<";">>)[2])
         IN  IF Skipped(cond, sys_name) THEN <<>> ELSE NameAndSpec(pkg)
    ELSE NameAndSpec(line)

\* parse_requirements of a file with the given text
RECURSIVE FromLines(_, _)
FromLines(lines, sys_name) ==
    IF lines = <<>> THEN <<>>
    ELSE FromLine(Head(lines), sys_name) \o FromLines(Tail(lines), sys_name)
parse_requirements(content, sys_name) == FromLines(Split(content, <<"\n">>), sys_name)

\* f"{pkg}{spec or ''}"
PackageText(req) == req.name \o (IF IsTruthy(req.spec) THEN req.spec[1] ELSE <<>>)

\* "\n".join(packages), the text run_pip_install writes
Written(packages) == Join(packages, <<"\n">>)

\* the lines of a requirements file and of an install_requires list
DeclaredLines ==
    {<<"r", "e", "q", "u", "e", "s", "t", "s">>,
     <<"r", "e", "q", "u", "e", "s", "t", "s", ">", "=", "2", ".", "0">>,
     <<"f", "l", "a", "s", "k", "=", "=", "1", ".", "0">>,
     <<"R", "e", "q", "u", "e", "s", "t", "s", "[", "s", "e", "c", "u", "r", "i", "t", "y", "]", ">", "=", "2", ".", "0">>,
     <<"p", "y", "w", "i", "n", "3", "2", ";", " ", "s", "y", "s", "_", "p", "l", "a", "t", "f", "o", "r", "m", " ", "=", "=", " ", "\"", "w", "i", "n", "3", "2", "\"">>,
     <<"u", "v", "l", "o", "o", "p", ">", "=", "0", ".", "1", ";", " ", "s", "y", "s", "_", "p", "l", "a", "t", "f", "o", "r", "m", " ", "=", "=", " ", "\"", "l", "i", "n", "u", "x", "\"">>,
     <<"c", "o", "l", "o", "r", "a", "m", "a", ";", " ", "s", "y", "s", "_", "p", "l", "a", "t", "f", "o", "r", "m", " ", "!", "=", " ", "\"", "l", "i", "n", "u", "x", "\"">>,
     <<"p", "e", "x", "p", "e", "c", "t", ";", " ", "s", "y", "s", "_", "p", "l", "a", "t", "f", "o", "r", "m", " ", "!", "=", " ", "\"", "w", "i", "n", "3", "2", "\"">>,
     <<"i", "d", "n", "a", ";", " ", "p", "y", "t", "h", "o", "n", "_", "v", "e", "r", "s", "i", "o", "n", " ", ">", "=", " ", "\"", "3", ".", "8", "\"">>,
     <<"a", "p", "p", "n", "o", "p", "e", ";", " ", "s", "y", "s", "_", "p", "l", "a", "t", "f", "o", "r", "m", " ", "=", "=", " ", "\"", "d", "a", "r", "w", "i", "n", "\"">>,
     <<"#", " ", "c", "o", "m", "m", "e", "n", "t">>,
     <<>>}
DeclaredLists == UNION {[1..n -> DeclaredLines] : n \in 0..MaxLines}

RequirementsInputs ==
    {Called("parse_requirements", [lines |-> ls, sys_name |-> sys]) :
        ls \in DeclaredLists, sys \in Platforms}
DepsInputs ==
    {Called("parse_deps", [lines |-> ls, sys_name |-> sys]) :
        ls \in DeclaredLists, sys \in Platforms}

\* parse_requirements on a file with the lines of the input
RequirementsCall ==
    /\ input.fn = "parse_requirements"
    /\ output = <<>>
    /\ output' = <<Return(parse_requirements(Written(input.arg[1].lines),
                                             input.arg[1].sys_name), FALSE)>>
    /\ UNCHANGED <<progVars, input>>

\* parse_deps on the install_requires list of a setup.py
DepsCall ==
    /\ input.fn = "parse_deps"
    /\ output = <<>>
    /\ output' = <<Return(parse_deps(input.arg[1].lines), FALSE)>>
    /\ UNCHANGED <<progVars, input>>

\* the requirements a parser returned are written to the manifest by
\* run_pip_install, none of them being installed, and read back by
\* parse_requirements
ManifestRoundTrip ==
    /\ input.fn \in {"parse_requirements", "parse_deps"}
    /\ Len(output) = 1
    /\ LET packages == [i \in DOMAIN output[1].value |-> PackageText(output[1].value[i])]
       IN  output' = Append(output,
                Return(parse_requirements(Written(packages), input.arg[1].sys_name), FALSE))
    /\ UNCHANGED <<progVars, input>>

\* ------------------------------------------------------------------ parse_python_file
\* the entries of STDLIB_MODULES and of PACKAGE_MAPPINGS for the modules the
\* model imports
STDLIB_MODULES == {"os", "sys"}
PACKAGE_MAPPINGS ==
    [m \in {"cv2", "PIL", "Image", "yaml", "cv"} |->
        CASE m = "cv2" -> "opencv-python"
          [] m = "PIL" -> "Pillow"
          [] m = "Image" -> "Pillow"
          [] m = "yaml" -> "pyyaml"
          [] m = "cv" -> "opencv-python"]

\* `import a.b` and `from a.b import c`, the module as its dotted parts;
\* `from . import c` has no module
Import(module) == [stmt |-> "import", module |-> module]
ImportFrom(module) == [stmt |-> "from", module |-> module]

\* extract_imports_from_file: the base modules of the import statements
extract_imports_from_file(tree) ==
    {node.module[1] : node \in {n \in tree : n.module # <<>>}}

\* filter_third_party_packages with the import name taken as the package
\* name
filter_third_party_packages_Unmapped(imports) == imports \ STDLIB_MODULES

\* PACKAGE_MAPPINGS.get(module, module), for the modules outside the standard
\* library
filter_third_party_packages(imports) ==
    {IF module \in DOMAIN PACKAGE_MAPPINGS THEN PACKAGE_MAPPINGS[module] ELSE module :
        module \in imports \ STDLIB_MODULES}

\* the package names of the model in the order sorted() gives them: capital
\* letters come before small ones
SortedNames == <<"Pillow", "numpy", "opencv-python", "pyyaml", "requests">>

\* sorted(names)
sorted(names) == SelectSeq(SortedNames, LAMBDA name : name \in names)

\* parse_python_file: [(pkg, None) for pkg in sorted(third_party)]
parse_python_file(tree) ==
    LET third_party == filter_third_party_packages(extract_imports_from_file(tree))
        pkgs == sorted(third_party)
    IN  [i \in DOMAIN pkgs |-> [name |-> pkgs[i], spec |-> Absent]]

\* the import statements of the Python files
ImportStatements ==
    {Import(<<"os">>), Import(<<"os", "path">>), ImportFrom(<<"sys">>),
     ImportFrom(<<"PIL">>), Import(<<"PIL", "Image">>), Import(<<"Image">>),
     Import(<<"cv2">>), ImportFrom(<<"cv">>), ImportFrom(<<"yaml">>),
     Import(<<"requests">>), ImportFrom(<<"numpy", "linalg">>), ImportFrom(<<>>)}

PythonFileInputs ==
    {Called("parse_python_file", [tree |-> tree]) : tree \in SUBSET ImportStatements}

PythonFileCall ==
    /\ input.fn = "parse_python_file"
    /\ output = <<>>
    /\ output' = <<Return(parse_python_file(input.arg[1].tree), FALSE)>>
    /\ UNCHANGED <<progVars, input>>

ConvertInputs ==
    {Called("convert_spec", [spec |-> t]) :
        t \in CaretTexts \cup TildeTexts \cup WildcardTexts \cup OtherTexts}

\* convert_spec on one constraint of a pyproject.toml
ConvertCall ==
    /\ input.fn = "convert_spec"
    /\ output = <<>>
    /\ output' = <<convert_spec(input.arg[1].spec)>>
    /\ UNCHANGED <<progVars, input>>

\* convert_spec on the text convert_spec returned
ConvertAgain ==
    /\ input.fn = "convert_spec"
    /\ Len(output) = 1
    /\ output[1].exc = None
    /\ output' = Append(output, convert_spec(output[1].value))
    /\ UNCHANGED <<progVars, input>>

\* every call of the functions taken on their own
FunctionInputs ==
    StatusInputs \cup ConvertInputs \cup PyprojectInputs \cup RequirementsInputs
    \cup DepsInputs \cup PythonFileInputs

InitFunctions ==
    /\ Parked
    /\ input \in FunctionInputs
    /\ output = <<>>

NextFunctions ==
    \/ StatusCall
    \/ ConvertCall
    \/ ConvertAgain
    \/ PyprojectCall
    \/ RequirementsCall
    \/ DepsCall
    \/ ManifestRoundTrip
    \/ PythonFileCall

Functions == InitFunctions /\ [][NextFunctions]_vars

\* ------------------------------------------------------------------ claims on functions
\* the kind of a constraint: Unspecified for None and '', Exact for a single
\* `==` clause, Range for everything else
KindOf(spec) ==
    IF ~IsTruthy(spec) THEN "Unspecified"
    ELSE IF StartsWith(spec[1], <<"=", "=">>) /\ ~Contains(spec[1], <<",">>)
    THEN "Exact"
    ELSE "Range"

\* the outcome by the decision order, first match wins
Decided(inst_ver, spec) ==
    IF inst_ver = Absent THEN "NotInstalled"
    ELSE IF KindOf(spec) = "Unspecified" THEN "NoConstraint"
    ELSE IF KindOf(spec) = "Exact"
    THEN IF Compare(Release(inst_ver[1]),
                    Release(SubSeq(spec[1], 3, Len(spec[1])))) = 0
         THEN "ExactMatch" ELSE "Mismatch"
    ELSE IF InSpecifiers(Release(inst_ver[1]), spec[1])
    THEN "Satisfied" ELSE "OutOfRange"

\* C15: the status the table loop gives a requirement is the outcome of the
\* decision order: NotInstalled without an installed version, else
\* NoConstraint for an Unspecified constraint, else ExactMatch or Mismatch
\* for an Exact one by version equality, else Satisfied or OutOfRange by
\* membership in the range.
C15_DecisionOrder ==
    (pc = "function" /\ input.fn = "status" /\ output # <<>>) =>
        output[1] = Decided(input.arg[1].inst_ver, input.arg[1].spec)

\* a finished call of convert_spec
Converted == pc = "function" /\ input.fn = "convert_spec" /\ output # <<>>

\* the i-th component of a version, 0 when the version stops before it
At(ns, i) == IF i \in DOMAIN ns THEN ns[i] ELSE 0

\* the component lists of one up to n components
UpTo(n) == UNION {[1..k -> Components] : k \in 1..n}

\* texts of unsupported shapes: a caret or a tilde before a version that is
\* not numeric or has four components, `~=1.2`, a bare `*`, a wildcard whose
\* leading component is not numeric
UnsupportedTexts ==
    {<<"^", "a">>, <<"^", "1", ".", "2", ".", "3", ".", "4">>, <<"~", "a">>, <<"~", "1", ".", "2", ".", "3", ".", "4">>,
     <<"~", "=", "1", ".", "2">>, <<"*">>, <<"x", ".", "*">>}

\* C17: convert_spec never raises; for a text of an unsupported shape it
\* returns the empty text after printing a warning.
C17_NeverRaises ==
    Converted =>
        /\ output[1].exc = None
        /\ input.arg[1].spec \in UnsupportedTexts => output[1] = Return(<<>>, TRUE)

\* `~X` and `~X.Y` with the result that fills the missing components of the
\* lower bound with 0
TildePadded ==
    {[spec |-> <<"~">> \o Dotted(ns),
      value |-> <<">", "=">> \o Dotted(<<ns[1], At(ns, 2), 0>>)
                \o <<",", "<">> \o Dotted(<<ns[1], At(ns, 2) + 1, 0>>)] : ns \in UpTo(2)}

\* C18 as stated: `~X.Y` becomes `>=X.Y.0,<X.(Y+1).0`, the missing
\* components being 0 in the lower bound as in the upper bound, so that
\* `~1.2` gives `>=1.2.0,<1.3.0` and `~1` gives `>=1.0.0,<1.1.0`.
C18_TildeLowerBoundPadded ==
    Converted =>
        \A c \in TildePadded :
            input.arg[1].spec = c.spec => output[1] = Return(c.value, FALSE)

\* `~V` for a version V of one to three components with the result that keeps
\* V as the lower bound
TildeAsWritten ==
    {[spec |-> <<"~">> \o Dotted(ns),
      value |-> <<">", "=">> \o Dotted(ns)
                \o <<",", "<">> \o Dotted(<<ns[1], At(ns, 2) + 1, 0>>)] : ns \in UpTo(3)}

\* C18: a tilde before a version V of one to three numeric components
\* X[.Y[.Z]] becomes `>=V,<X.(Y+1).0`: the lower bound is V as written, and a
\* missing Y counts as 0 in the upper bound only.
C18_TildeLowerBoundAsWritten ==
    Converted =>
        \A c \in TildeAsWritten :
            input.arg[1].spec = c.spec => output[1] = Return(c.value, FALSE)

\* C18 witness: `~1.2` has been converted to `>=1.2,<1.3.0`.
C18_Witness ==
    /\ Converted
    /\ input.arg[1].spec = <<"~", "1", ".", "2">>
    /\ output[1] = Return(<<">", "=", "1", ".", "2", ",", "<", "1", ".", "3", ".", "0">>, FALSE)

\* `^X.Y.Z` with the upper bound that bumps the highest component that is
\* not 0
CaretBumped ==
    {[spec |-> <<"^">> \o Dotted(ns),
      value |-> <<">", "=">> \o Dotted(ns) \o <<",", "<">>
                \o (IF ns[1] > 0 THEN Dotted(<<ns[1] + 1, 0, 0>>)
                    ELSE IF ns[2] > 0 THEN Dotted(<<0, ns[2] + 1, 0>>)
                    ELSE Dotted(<<0, 0, ns[3] + 1>>))] : ns \in [1..3 -> Components]}

\* C19: a caret before three numeric components X.Y.Z becomes `>=X.Y.Z,<U`
\* where U is (X+1).0.0 if X > 0, else 0.(Y+1).0 if Y > 0, else 0.0.(Z+1).
C19_CaretUpperBound ==
    Converted =>
        \A c \in CaretBumped :
            input.arg[1].spec = c.spec => output[1] = Return(c.value, FALSE)

\* C19 witness: `^0.0.3` has been converted to `>=0.0.3,<0.0.4`.
C19_Witness ==
    /\ Converted
    /\ input.arg[1].spec = <<"^", "0", ".", "0", ".", "3">>
    /\ output[1] = Return(<<">", "=", "0", ".", "0", ".", "3", ",", "<", "0", ".", "0", ".", "4">>, FALSE)

\* `N.*` and `N.M.*` with the range of the versions that start with them
WildcardRanges ==
    {[spec |-> Dotted(<<n>>) \o <<".", "*">>,
      value |-> <<">", "=">> \o Dotted(<<n, 0>>) \o <<",", "<">> \o Dotted(<<n + 1, 0>>)] :
        n \in Components}
    \cup
    {[spec |-> Dotted(<<n, m>>) \o <<".", "*">>,
      value |-> <<">", "=">> \o Dotted(<<n, m, 0>>) \o <<",", "<">> \o Dotted(<<n, m + 1, 0>>)] :
        n \in Components, m \in Components}

\* C20: for the numbers N and M, `N.*` becomes `>=N.0,<(N+1).0` and `N.M.*`
\* becomes `>=N.M.0,<N.(M+1).0`.
C20_WildcardRange ==
    Converted =>
        \A c \in WildcardRanges :
            input.arg[1].spec = c.spec => output[1] = Return(c.value, FALSE)

\* C20 witness: `1.2.*` has been converted to `>=1.2.0,<1.3.0`.
C20_Witness ==
    /\ Converted
    /\ input.arg[1].spec = <<"1", ".", "2", ".", "*">>
    /\ output[1] = Return(<<">", "=", "1", ".", "2", ".", "0", ",", "<", "1", ".", "3", ".", "0">>, FALSE)

\* convert_spec has been applied to its own result
ConvertedTwice == pc = "function" /\ input.fn = "convert_spec" /\ Len(output) = 2

\* C21: convert_spec is idempotent on its own output: for every text c on
\* which it returns, convert_spec(convert_spec(c)) returns the same text as
\* convert_spec(c).
C21_Idempotent ==
    ConvertedTwice =>
        output[2].exc = None /\ output[2].value = output[1].value

\* a finished call of parse_pyproject_toml where a TOML reader is installed
ParsedPyproject ==
    /\ pc = "function"
    /\ input.fn = "parse_pyproject_toml"
    /\ output # <<>>
    /\ input.arg[1].toml

\* an entry of the dependency table that names a package and whose
\* constraint convert_spec handles
WellFormed(e) ==
    /\ e.dep # <<"p", "y", "t", "h", "o", "n">>
    /\ e.ver.version # Absent
    /\ convert_spec(e.ver.version[1]).exc = None

\* the requirement a well-formed entry stands for
RequirementOf(e) ==
    LET spec == convert_spec(e.ver.version[1]).value
    IN  [name |-> e.dep, spec |-> IF spec # <<>> THEN Some(spec) ELSE Absent]

\* C22: the parser of the name-keyed dependency table tolerates a malformed
\* entry: whatever entries of the table have a constraint convert_spec cannot
\* handle or have no version, every other entry yields its requirement.
C22_MalformedEntrySkipped ==
    ParsedPyproject =>
        \A i \in DOMAIN input.arg[1].poetry :
            WellFormed(input.arg[1].poetry[i]) =>
                \E k \in DOMAIN output[1].value :
                    output[1].value[k] = RequirementOf(input.arg[1].poetry[i])

\* a finished call of parse_requirements
ParsedRequirements ==
    pc = "function" /\ input.fn = "parse_requirements" /\ output # <<>>

\* the two markers the line parser knows
Win32Only == <<"s", "y", "s", "_", "p", "l", "a", "t", "f", "o", "r", "m", " ", "=", "=", " ", "\"", "w", "i", "n", "3", "2", "\"">>
LinuxOnly == <<"s", "y", "s", "_", "p", "l", "a", "t", "f", "o", "r", "m", " ", "=", "=", " ", "\"", "l", "i", "n", "u", "x", "\"">>

\* what a line gives when it is dropped for the two markers on the other
\* platforms only, and loses its marker otherwise
MarkerLine(text, sys_name) ==
    LET line == Strip(text) IN
    IF ~Contains(line, <<";">>) THEN FromLine(text, sys_name)
    ELSE LET pkg == Strip(SplitOnce(line, <<";">>)[1])
             cond == Strip(SplitOnce(line, <<";">>)[2])
         IN  IF \/ cond = Win32Only /\ sys_name # "windows"
                \/ cond = LinuxOnly /\ sys_name # "linux"
             THEN <<>>
             ELSE NameAndSpec(pkg)

RECURSIVE MarkerLines(_, _)
MarkerLines(lines, sys_name) ==
    IF lines = <<>> THEN <<>>
    ELSE MarkerLine(Head(lines), sys_name) \o MarkerLines(Tail(lines), sys_name)

\* C23: the line parser drops a line with the marker `sys_platform ==
\* "win32"` when the platform is not Windows and a line with the marker
\* `sys_platform == "linux"` when the platform is not Linux; a line with any
\* other marker is kept, and a kept line is split into name and constraint
\* without its marker.
C23_MarkerLines ==
    ParsedRequirements =>
        output[1].value = MarkerLines(input.arg[1].lines, input.arg[1].sys_name)

\* sys.platform on the platforms
SysPlatform(sys_name) ==
    IF sys_name = "windows" THEN <<"w", "i", "n", "3", "2">>
    ELSE IF sys_name = "linux" THEN <<"l", "i", "n", "u", "x">> ELSE <<"d", "a", "r", "w", "i", "n">>

\* a marker that compares sys_platform with a value and is true on the
\* platform
TrueOn(cond, sys_name) ==
    \E v \in {<<"w", "i", "n", "3", "2">>, <<"l", "i", "n", "u", "x">>, <<"d", "a", "r", "w", "i", "n">>} :
        \/ cond = <<"s", "y", "s", "_", "p", "l", "a", "t", "f", "o", "r", "m", " ", "=", "=", " ", "\"">> \o v \o <<"\"">> /\ v = SysPlatform(sys_name)
        \/ cond = <<"s", "y", "s", "_", "p", "l", "a", "t", "f", "o", "r", "m", " ", "!", "=", " ", "\"">> \o v \o <<"\"">> /\ v # SysPlatform(sys_name)

\* C30: the line parser never drops a requirement whose marker is true on
\* the running platform: a line with `sys_platform != "win32"` is kept on
\* Linux, a line with `sys_platform != "linux"` is kept on Windows.
C30_TrueMarkerKept ==
    ParsedRequirements =>
        \A i \in DOMAIN input.arg[1].lines :
            LET line == Strip(input.arg[1].lines[i]) IN
            (/\ Contains(line, <<";">>)
             /\ TrueOn(Strip(SplitOnce(line, <<";">>)[2]), input.arg[1].sys_name)) =>
                \E k \in DOMAIN output[1].value :
                    <<output[1].value[k]>> = NameAndSpec(Strip(SplitOnce(line, <<";">>)[1]))

\* the requirements of a parser have been written to the manifest and read
\* back
ReadBack ==
    /\ pc = "function"
    /\ input.fn \in {"parse_requirements", "parse_deps"}
    /\ Len(output) = 2

\* C24: the requirements a source parser produced, written to the transient
\* manifest one per line as name and constraint text and read back by
\* parse_requirements, are the same requirements: as many, with the same
\* names and constraints, in the same order.
C24_ManifestRoundTrip == ReadBack => output[2].value = output[1].value

UpperLetters ==
    {"A", "B", "C", "D", "E", "F", "G", "H", "I", "J", "K", "L", "M", "N",
     "O", "P", "Q", "R", "S", "T", "U", "V", "W", "X", "Y", "Z"}

\* a finished call of the line parser or of a manifest parser
ParsedDeclared ==
    /\ pc = "function"
    /\ input.fn \in {"parse_requirements", "parse_deps", "parse_pyproject_toml"}
    /\ output # <<>>

\* C26: every requirement of the line parser and of the manifest parsers has
\* a name in lower case and without extras: `Requests[security]>=2.0` gives
\* the name `requests` and the constraint `>=2.0`, the `[...]` part being in
\* neither of them.
C26_NameNormalized ==
    ParsedDeclared =>
        /\ \A k \in DOMAIN output[1].value :
              LET req == output[1].value[k] IN
              /\ \A i \in DOMAIN req.name : req.name[i] \notin UpperLetters
              /\ req.spec # Absent => ~Contains(req.spec[1], <<"[">>)
        /\ (input.fn # "parse_pyproject_toml" /\ input.arg[1].lines = <<<<"R", "e", "q", "u", "e", "s", "t", "s", "[", "s", "e", "c", "u", "r", "i", "t", "y", "]", ">", "=", "2", ".", "0">>>>) =>
              output[1].value = <<[name |-> <<"r", "e", "q", "u", "e", "s", "t", "s">>, spec |-> Some(<<">", "=", "2", ".", "0">>)]>>

\* a finished call of parse_python_file
ParsedPythonFile ==
    pc = "function" /\ input.fn = "parse_python_file" /\ output # <<>>

\* the base module names a file imports
ImportedNames(tree) == {n.module[1] : n \in {m \in tree : m.module # <<>>}}

\* the distribution of an import name: its entry in the alias table, or the
\* name itself
Distribution(module) ==
    CASE module \in {"PIL", "Image"} -> "Pillow"
      [] module \in {"cv2", "cv"} -> "opencv-python"
      [] module = "yaml" -> "pyyaml"
      [] OTHER -> module

\* C25: for any set of imported base module names the import parser returns
\* exactly the distributions of the names outside the standard library, each
\* with an Unspecified constraint and each once, also when two names map to
\* the same distribution.
C25_ThirdPartyImports ==
    ParsedPythonFile =>
        LET reqs == output[1].value IN
        /\ {reqs[k].name : k \in DOMAIN reqs} =
              {Distribution(m) : m \in ImportedNames(input.arg[1].tree) \ {"os", "sys"}}
        /\ \A k \in DOMAIN reqs : reqs[k].spec = Absent
        /\ \A j, k \in DOMAIN reqs : reqs[j].name = reqs[k].name => j = k

\* C25 witness: a file with `import os`, `from PIL import ...` and
\* `import Image` has given the one requirement Pillow.
C25_Witness ==
    /\ ParsedPythonFile
    /\ input.arg[1].tree = {Import(<<"os">>), ImportFrom(<<"PIL">>), Import(<<"Image">>)}
    /\ output[1].value = <<[name |-> "Pillow", spec |-> Absent]>>

====
